---- MODULE Spec2Model ----
(***************************************************************************)
(* Model of the Test Execution Orchestrator                                *)
(* (src/agents/test_execution_agent.py, class TestExecutionAgent).         *)
(*                                                                         *)
(* Conventions                                                             *)
(*  - Python None is <<>> and a present optional value s is <<s>>.         *)
(*  - Durations are held in milliseconds: 300.0 s is 300 * 1000.           *)
(*  - A JSON value is a tagged record [t |-> tag, v |-> payload].          *)
(*  - A line of text is a record that carries, beside its text, the        *)
(*    answers of the string tests the code applies to it.                  *)
(***************************************************************************)
EXTENDS Integers, Sequences, FiniteSets, TLC

VARIABLES
    retries,        \* self.retries (constructor configuration)
    stats,          \* self.stats
    now,            \* wall clock, whole seconds
    disk,           \* report files present, <<execution_id, file name>>
    dirs,           \* artifacts directories created
    pc,             \* position of the process() call in flight
    calls,          \* number of process() calls started
    call,           \* locals of the process() call in flight
    test_files,     \* execute_test_suite: discovered files
    idx,            \* execute_test_suite: loop position (1-based)
    test_results,   \* execute_test_suite: accumulated results
    file_log,       \* per executed file: runner behaviour, attempts, results
    suite,          \* TestSuiteResult of the call in flight, <<>> if none
    response,       \* last AgentResponse returned, <<>> if none
    stats_updates,  \* number of update_stats applications in the call
    parse_in,       \* parser harness: last input handed to the parser
    parse_out,      \* parser harness: what the parser returned
    retry_out,      \* retry harness: outcome of the retry wrapper
    upd_log,        \* statistics harness: suites handed to update_stats
    fn_in,          \* single-function harnesses: the arguments of the call
    fn_out          \* single-function harnesses: what the call returned

vars == <<retries, stats, now, disk, dirs, pc, calls, call, test_files, idx,
          test_results, file_log, suite, response, stats_updates,
          parse_in, parse_out, retry_out, upd_log, fn_in, fn_out>>

-----------------------------------------------------------------------------
(* Bounds of the model *)

MaxCalls == 1
MaxRetries == 2
MaxUpdates == 12
MaxLines == 2
MaxRuns == 2
MaxArtifactFiles == 2
MaxAttempts == 3
MaxTests == 2

(* Program constants *)

RunnerTimeoutSeconds == 300
HistoryLimit == 10
DefaultRetries == 2

-----------------------------------------------------------------------------
(* Optional values *)

None == <<>>
Some(x) == <<x>>

(* TestStatus values, as the reports spell them *)
PASSED == "passed"
FAILED == "failed"
SKIPPED == "skipped"
ERROR == "error"
TestStatus == {PASSED, FAILED, SKIPPED, ERROR}

(* TestResult(...): retry_count defaults to 0, the artifact paths to None *)
TestResult(test_id, test_name, status, duration, error_message) ==
    [test_id |-> test_id, test_name |-> test_name, status |-> status,
     duration |-> duration, error_message |-> error_message,
     screenshot_path |-> None, video_path |-> None, retry_count |-> 0]

-----------------------------------------------------------------------------
(* JSON values, as json.loads returns them *)

JNull == [t |-> "null", v |-> 0]
JNum(n) == [t |-> "num", v |-> n]
JStr(s) == [t |-> "str", v |-> s]
JList(s) == [t |-> "list", v |-> s]
JDict(r) == [t |-> "dict", v |-> r]

(* x.get(key, default): AttributeError unless x is a dict *)
CanGet(x) == x.t = "dict"
Get(x, key, default) ==
    IF key \in DOMAIN x.v THEN x.v[key] ELSE default

(* for item in x: TypeError for a number or null.  A list yields its      *)
(* items.  A string yields its characters and a dict its keys, all str:   *)
(* the loops below call .get on each item first, so one str item stands   *)
(* for any positive number of them.                                       *)
CanIter(x) == x.t \in {"list", "str", "dict"}
Items(x) ==
    CASE x.t = "list" -> x.v
      [] x.t = "str" -> IF x.v = "" THEN <<>> ELSE <<JStr(x.v)>>
      [] x.t = "dict" -> IF DOMAIN x.v = {} THEN <<>>
                         ELSE <<JStr(CHOOSE k \in DOMAIN x.v : TRUE)>>
      [] OTHER -> <<>>

-----------------------------------------------------------------------------
(* Artifacts directory of one run, as the locator sees it:                 *)
(*   [screenshots |-> d, videos |-> d],                                    *)
(*   d = [exists, unreadable, files]; files in directory-traversal order,  *)
(*   each [path, suffix, has_test, ids]: suffix is the lower-cased suffix, *)
(*   has_test says 'test' occurs in the lower-cased name, ids is the set   *)
(*   of test ids that occur in the name.                                   *)

ScreenshotExtensions == {".png", ".jpg", ".jpeg"}
VideoExtensions == {".webm", ".mp4"}

RECURSIVE FirstMatch(_, _, _, _)
FirstMatch(files, i, test_id, extensions) ==
    IF i > Len(files) THEN None
    ELSE IF /\ files[i].suffix \in extensions
            /\ (test_id \in files[i].ids \/ files[i].has_test)
         THEN Some(files[i].path)
         ELSE FirstMatch(files, i + 1, test_id, extensions)

(* faulty variant: no handler, the file system error leaves the function *)
FindTestArtifactsNoHandler(test_id, art, artifact_type) ==
    IF artifact_type \notin {"screenshot", "video"} THEN None
    ELSE LET d == IF artifact_type = "screenshot" THEN art.screenshots
                  ELSE art.videos
             extensions == IF artifact_type = "screenshot"
                           THEN ScreenshotExtensions ELSE VideoExtensions
         IN  IF ~d.exists THEN None
             ELSE IF d.unreadable THEN [raised |-> "PermissionError"]
             ELSE FirstMatch(d.files, 1, test_id, extensions)

FindTestArtifacts(test_id, art, artifact_type) ==
    IF artifact_type \notin {"screenshot", "video"} THEN None
    ELSE LET d == IF artifact_type = "screenshot" THEN art.screenshots
                  ELSE art.videos
             extensions == IF artifact_type = "screenshot"
                           THEN ScreenshotExtensions ELSE VideoExtensions
         IN  IF ~d.exists THEN None
             ELSE IF d.unreadable THEN None     \* except Exception: None
             ELSE FirstMatch(d.files, 1, test_id, extensions)

-----------------------------------------------------------------------------
(* _parse_playwright_json_results: suites -> specs -> tests -> results.    *)
(* Every walker returns [results, ok]; ok = FALSE is an exception raised   *)
(* inside the walk, which the function's own handler swallows, returning   *)
(* the results appended so far.                                            *)

StrOf(j) == j.v

AttemptsInit ==
    [status |-> PASSED, error_message |-> None, duration |-> 0, ok |-> TRUE]

RECURSIVE WalkAttempts(_, _, _)
WalkAttempts(items, i, acc) ==
    IF i > Len(items) THEN acc
    ELSE LET result == items[i] IN
      IF ~CanGet(result) THEN [acc EXCEPT !.ok = FALSE]
      ELSE LET d == Get(result, "duration", JNum(0))
               st == Get(result, "status", JNull)
               err == Get(result, "error", JDict(<<>>))
           IN
        IF d.t # "num" THEN [acc EXCEPT !.ok = FALSE]
        ELSE IF st.t = "str" /\ st.v = "failed" THEN
               IF ~CanGet(err) THEN [acc EXCEPT !.ok = FALSE]
               ELSE WalkAttempts(items, i + 1,
                      [acc EXCEPT !.duration = @ + d.v,
                                  !.status = FAILED,
                                  !.error_message =
                                     Some(StrOf(Get(err, "message",
                                                    JStr("Test failed"))))])
        ELSE IF st.t = "str" /\ st.v = "skipped" THEN
               WalkAttempts(items, i + 1,
                      [acc EXCEPT !.duration = @ + d.v, !.status = SKIPPED])
        ELSE WalkAttempts(items, i + 1, [acc EXCEPT !.duration = @ + d.v])

RECURSIVE WalkTests(_, _, _, _)
WalkTests(items, i, acc, art) ==
    IF i > Len(items) THEN acc
    ELSE LET test == items[i] IN
      IF ~CanGet(test) THEN [acc EXCEPT !.ok = FALSE]
      ELSE LET test_id == StrOf(Get(test, "id", JStr("unknown")))
               test_name == StrOf(Get(test, "title", JStr("Unknown Test")))
               rs == Get(test, "results", JList(<<>>))
           IN
        IF ~CanIter(rs) THEN [acc EXCEPT !.ok = FALSE]
        ELSE LET a == WalkAttempts(Items(rs), 1, AttemptsInit) IN
          IF ~a.ok THEN [acc EXCEPT !.ok = FALSE]
          ELSE WalkTests(items, i + 1,
                 [acc EXCEPT !.results = Append(@,
                    [TestResult(test_id, test_name, a.status, a.duration,
                                a.error_message)
                     EXCEPT !.screenshot_path =
                                FindTestArtifacts(test_id, art, "screenshot"),
                            !.video_path =
                                FindTestArtifacts(test_id, art, "video")])],
                 art)

RECURSIVE WalkSpecs(_, _, _, _)
WalkSpecs(items, i, acc, art) ==
    IF i > Len(items) THEN acc
    ELSE LET spec == items[i] IN
      IF ~CanGet(spec) THEN [acc EXCEPT !.ok = FALSE]
      ELSE LET tests == Get(spec, "tests", JList(<<>>)) IN
        IF ~CanIter(tests) THEN [acc EXCEPT !.ok = FALSE]
        ELSE LET r == WalkTests(Items(tests), 1, acc, art) IN
          IF ~r.ok THEN r ELSE WalkSpecs(items, i + 1, r, art)

RECURSIVE WalkSuites(_, _, _, _)
WalkSuites(items, i, acc, art) ==
    IF i > Len(items) THEN acc
    ELSE LET s == items[i] IN
      IF ~CanGet(s) THEN [acc EXCEPT !.ok = FALSE]
      ELSE LET specs == Get(s, "specs", JList(<<>>)) IN
        IF ~CanIter(specs) THEN [acc EXCEPT !.ok = FALSE]
        ELSE LET r == WalkSpecs(Items(specs), 1, acc, art) IN
          IF ~r.ok THEN r ELSE WalkSuites(items, i + 1, r, art)

(* the walk with its outcome: ok = FALSE when the handler at lines         *)
(* 511-512 caught an exception                                             *)
JsonWalk(json_data, art) ==
    LET suites == Get(json_data, "suites", JList(<<>>)) IN
    IF ~CanIter(suites) THEN [results |-> <<>>, ok |-> FALSE]
    ELSE WalkSuites(Items(suites), 1, [results |-> <<>>, ok |-> TRUE], art)

ParsePlaywrightJsonResults(json_data, art) == JsonWalk(json_data, art).results

-----------------------------------------------------------------------------
(* Captured output of the child process (subprocess.CompletedProcess):     *)
(*   [stdout, stderr, returncode]                                          *)
(* stdout is the sequence of its lines (<<>> is the empty string), each    *)
(*   [text, brace, suites, login, failed, json]                            *)
(*   brace:  line.strip().startswith('{')                                  *)
(*   suites: 'suites' in line                                              *)
(*   login, failed: the word occurs in the lower-cased line                *)
(*   json:   what json.loads(line) does: [k |-> "value", val |-> v],       *)
(*           [k |-> "invalid"] (JSONDecodeError) or [k |-> "deep"]         *)
(*           (RecursionError, nesting beyond the interpreter's limit)      *)
(* stderr is [text, login, failed].                                        *)

HasLogin(proc) ==
    \/ \E i \in 1..Len(proc.stdout) : proc.stdout[i].login
    \/ proc.stderr.login
HasFailed(proc) ==
    \/ \E i \in 1..Len(proc.stdout) : proc.stdout[i].failed
    \/ proc.stderr.failed

IsCandidate(line) == line.brace /\ line.suites

(* index of the first line the scan at lines 441-442 stops at, 0 if none *)
FirstCandidate(stdout) ==
    IF \E i \in 1..Len(stdout) : IsCandidate(stdout[i])
    THEN CHOOSE i \in 1..Len(stdout) :
            /\ IsCandidate(stdout[i])
            /\ \A j \in 1..(i - 1) : ~IsCandidate(stdout[j])
    ELSE 0

(* faulty variant: the exit-code test inverted *)
ParsePlaywrightTextResultsInverted(proc, test_file, art) ==
    LET status == IF proc.returncode # 0 THEN PASSED ELSE FAILED
        error_message ==
            IF proc.returncode # 0 THEN None
            ELSE IF proc.stderr.text # "" THEN Some(proc.stderr.text)
            ELSE Some("Test failed")
    IN  <<TestResult("text_" \o test_file.stem, test_file.name, status, 0,
                     error_message)>>

(* faulty variant: the generic message whatever stderr holds *)
ParsePlaywrightTextResultsGeneric(proc, test_file, art) ==
    LET status == IF proc.returncode = 0 THEN PASSED ELSE FAILED
        error_message ==
            IF proc.returncode = 0 THEN None ELSE Some("Test failed")
    IN  <<TestResult("text_" \o test_file.stem, test_file.name, status, 0,
                     error_message)>>

(* _parse_playwright_text_results *)
ParsePlaywrightTextResults(proc, test_file, art) ==
    LET status == IF proc.returncode = 0 THEN PASSED ELSE FAILED
        error_message ==
            IF proc.returncode = 0 THEN None
            ELSE IF proc.stderr.text # "" THEN Some(proc.stderr.text)
            ELSE Some("Test failed")
    IN  <<TestResult("text_" \o test_file.stem, test_file.name, status, 0,
                     error_message)>>

AuthFailedResult(test_file) ==
    <<TestResult("auth_failed_" \o test_file.name, test_file.name, ERROR, 0,
                 Some("Authentication failed - check credentials"))>>

ParseErrorResult(test_file, e) ==
    <<TestResult("parse_error_" \o test_file.name, test_file.name, ERROR, 0,
                 Some("Failed to parse results: " \o e))>>

(* _parse_playwright_results with the path it took:                        *)
(*   via: "json" | "auth" | "text" | "parse_error"                         *)
(*   exc: the exception met while parsing, "none" if there was none        *)
ParseOutcome(proc, test_file, art) ==
    LET c == FirstCandidate(proc.stdout) IN
    IF c # 0 THEN
        LET j == proc.stdout[c].json IN
        CASE j.k = "value" ->
                LET w == JsonWalk(j.val, art) IN
                [results |-> w.results, via |-> "json",
                 exc |-> IF w.ok THEN "none" ELSE "walk"]
          [] j.k = "invalid" ->
                [results |-> ParsePlaywrightTextResults(proc, test_file, art),
                 via |-> "text", exc |-> "JSONDecodeError"]
          [] OTHER ->
                [results |-> ParseErrorResult(test_file,
                                "maximum recursion depth exceeded"),
                 via |-> "parse_error", exc |-> "RecursionError"]
    ELSE IF HasLogin(proc) /\ HasFailed(proc) THEN
        [results |-> AuthFailedResult(test_file), via |-> "auth",
         exc |-> "none"]
    ELSE
        [results |-> ParsePlaywrightTextResults(proc, test_file, art),
         via |-> "text", exc |-> "none"]

ParsePlaywrightResults(proc, test_file, art) ==
    ParseOutcome(proc, test_file, art).results

-----------------------------------------------------------------------------
(* Behaviour of one run of a test file, chosen by the environment:         *)
(*   [kind, exc, msg, proc, art]                                           *)
(*   kind "outside":   the resolved path is not under playwright_tests;    *)
(*                     relative_to raises ValueError before the runner     *)
(*                     is started                                          *)
(*   kind "raise":     subprocess.run raises exc (TimeoutExpired,          *)
(*                     FileNotFoundError or another exception)             *)
(*   kind "completed": the child exits, proc is what was captured          *)
(* msg is str(e) of the exception; art is the artifacts directory after    *)
(* the run.                                                                *)

RunnerRaises(b) == b.kind = "raise"
ExecutionFails(b) == b.kind \in {"outside", "raise"}

(* faulty variant: no handler for TimeoutExpired, the general handler takes it *)
ExecuteSingleTestFileNoTimeoutHandler(test_path, b) ==
    CASE b.kind = "completed" ->
            [raised |-> FALSE,
             results |-> ParsePlaywrightResults(b.proc, test_path, b.art)]
      [] b.kind = "raise" /\ b.exc = "FileNotFoundError" ->
            [raised |-> FALSE,
             results |-> <<TestResult("file_not_found_" \o test_path.name,
                              test_path.name, ERROR, 0,
                              Some("File not found: " \o b.msg))>>]
      [] OTHER ->
            [raised |-> FALSE,
             results |-> <<TestResult("error_" \o test_path.name,
                              test_path.name, ERROR, 0, Some(b.msg))>>]

(* faulty variant: no general handler, other exceptions leave the function *)
ExecuteSingleTestFileNoGeneralHandler(test_path, b) ==
    CASE b.kind = "completed" ->
            [raised |-> FALSE,
             results |-> ParsePlaywrightResults(b.proc, test_path, b.art)]
      [] b.kind = "raise" /\ b.exc = "TimeoutExpired" ->
            [raised |-> FALSE,
             results |-> <<TestResult("timeout_" \o test_path.name,
                              test_path.name, ERROR,
                              RunnerTimeoutSeconds * 1000,
                              Some("Test execution timed out"))>>]
      [] b.kind = "raise" /\ b.exc = "FileNotFoundError" ->
            [raised |-> FALSE,
             results |-> <<TestResult("file_not_found_" \o test_path.name,
                              test_path.name, ERROR, 0,
                              Some("File not found: " \o b.msg))>>]
      [] OTHER -> [raised |-> TRUE, results |-> <<>>]

(* _execute_single_test_file: [raised, results]; every exception is        *)
(* caught at lines 372-398, so raised is FALSE on every path               *)
ExecuteSingleTestFile(test_path, b) ==
    CASE b.kind = "completed" ->
            [raised |-> FALSE,
             results |-> ParsePlaywrightResults(b.proc, test_path, b.art)]
      [] b.kind = "raise" /\ b.exc = "TimeoutExpired" ->
            [raised |-> FALSE,
             results |-> <<TestResult("timeout_" \o test_path.name,
                              test_path.name, ERROR,
                              RunnerTimeoutSeconds * 1000,
                              Some("Test execution timed out"))>>]
      [] b.kind = "raise" /\ b.exc = "FileNotFoundError" ->
            [raised |-> FALSE,
             results |-> <<TestResult("file_not_found_" \o test_path.name,
                              test_path.name, ERROR, 0,
                              Some("File not found: " \o b.msg))>>]
      [] OTHER ->
            [raised |-> FALSE,
             results |-> <<TestResult("error_" \o test_path.name,
                              test_path.name, ERROR, 0, Some(b.msg))>>]

(* _execute_single_test_file_with_retry: bs[k] is the behaviour of the     *)
(* k-th call of _execute_single_test_file; returns [attempts, results]     *)
RECURSIVE RetryLoop(_, _, _, _, _)
RetryLoop(test_file, bs, attempt, max_retries, last_exception) ==
    IF attempt > max_retries THEN
        [attempts |-> attempt,
         results |-> <<[TestResult("retry_failed_" \o test_file.name,
                           test_file.name, ERROR, 0,
                           Some("All " \o ToString(max_retries + 1)
                                \o " attempts failed. Last error: "
                                \o last_exception))
                        EXCEPT !.retry_count = max_retries]>>]
    ELSE LET o == ExecuteSingleTestFile(test_file, bs[attempt + 1]) IN
         IF ~o.raised THEN [attempts |-> attempt + 1, results |-> o.results]
         ELSE RetryLoop(test_file, bs, attempt + 1, max_retries,
                        bs[attempt + 1].msg)

ExecuteSingleTestFileWithRetry(test_file, bs, max_retries) ==
    RetryLoop(test_file, bs, 0, max_retries, "None")

-----------------------------------------------------------------------------
(* Test discovery.  A path below the suite root is                         *)
(*   [path, dir, direct, name, stem, suffix, ending, ord]                  *)
(*   dir:    first component below the root ("" for a file in the root)    *)
(*   direct: the file lies directly inside dir                             *)
(*   ending: the tail of the name the glob patterns test                   *)
(*   ord:    rank of the path in sorted() order                            *)

F1 == [path |-> "edge_cases/login.spec.ts", dir |-> "edge_cases",
       direct |-> TRUE, name |-> "login.spec.ts", stem |-> "login.spec",
       suffix |-> ".ts", ending |-> ".spec.ts", ord |-> 1]
F2 == [path |-> "functionality/login.spec.ts", dir |-> "functionality",
       direct |-> TRUE, name |-> "login.spec.ts", stem |-> "login.spec",
       suffix |-> ".ts", ending |-> ".spec.ts", ord |-> 2]
F3 == [path |-> "functionality/nested/deep.test.ts", dir |-> "functionality",
       direct |-> FALSE, name |-> "deep.test.ts", stem |-> "deep.test",
       suffix |-> ".ts", ending |-> ".test.ts", ord |-> 3]
F4 == [path |-> "misc/smoke-test.ts", dir |-> "misc",
       direct |-> TRUE, name |-> "smoke-test.ts", stem |-> "smoke-test",
       suffix |-> ".ts", ending |-> "-test.ts", ord |-> 4]
F5 == [path |-> "notes.md", dir |-> "",
       direct |-> TRUE, name |-> "notes.md", stem |-> "notes",
       suffix |-> ".md", ending |-> "", ord |-> 5]
PathUniverse == {F1, F2, F3, F4, F5}

TestDirs == {"performance", "edge_cases", "accessibility", "functionality",
             "cross_browser"}
CategoryPatterns == {".spec.ts", ".test.ts"}
RootPatterns == {".test.ts", ".spec.ts", "-test.ts", "-spec.ts"}

RECURSIVE Sorted(_)
Sorted(S) ==
    IF S = {} THEN <<>>
    ELSE LET m == CHOOSE x \in S : \A y \in S : x.ord <= y.ord
         IN  <<m>> \o Sorted(S \ {m})

(* target of process(): [kind, self, files, subdirs]                       *)
(*   kind "missing" | "file" | "dir"; self: the path when it is a file;    *)
(*   files: files below a directory; subdirs: its immediate subdirectories *)
FindTestFiles(target) ==
    IF target.kind = "file" THEN
        IF target.self.suffix \in {".js", ".ts"} THEN <<target.self>>
        ELSE <<>>
    ELSE IF target.kind = "dir" THEN
        LET in_dirs == {f \in target.files :
                           /\ f.dir \in TestDirs
                           /\ f.dir \in target.subdirs
                           /\ f.direct
                           /\ f.ending \in CategoryPatterns}
            in_tree == {f \in target.files : f.ending \in RootPatterns}
        IN  Sorted(IF in_dirs # {} THEN in_dirs ELSE in_tree)
    ELSE <<>>

DirsOf(files) == {f.dir : f \in files} \ {""}

(* _find_test_files step by step.  listing is the order in which the     *)
(* directory enumeration (glob, rglob) yields the files below the        *)
(* target; ord is the rank of a path in the order sorted() uses.         *)
F6 == [path |-> "tools/load-test.ts", dir |-> "tools",
       direct |-> TRUE, name |-> "load-test.ts", stem |-> "load-test",
       suffix |-> ".ts", ending |-> "-test.ts", ord |-> 6]

TestDirList == <<"performance", "edge_cases", "accessibility",
                 "functionality", "cross_browser">>
CategoryPatternList == <<".spec.ts", ".test.ts">>
RootPatternList == <<".test.ts", ".spec.ts", "-test.ts", "-spec.ts">>

(* dir_path.glob('*' + pattern): the files directly in dir_path *)
Glob(listing, dir, pattern) ==
    SelectSeq(listing,
              LAMBDA f : f.direct /\ f.dir = dir /\ f.ending = pattern)

(* test_suite_path.rglob('*' + pattern): the files anywhere below *)
RGlob(listing, pattern) ==
    SelectSeq(listing, LAMBDA f : f.ending = pattern)

RECURSIVE CollectCategories(_, _, _, _)
CollectCategories(target, listing, i, test_paths) ==
    IF i > Len(TestDirList) THEN test_paths
    ELSE LET test_dir == TestDirList[i]
             found == IF test_dir \in target.subdirs
                      THEN Glob(listing, test_dir, CategoryPatternList[1])
                           \o Glob(listing, test_dir, CategoryPatternList[2])
                      ELSE <<>>
         IN  CollectCategories(target, listing, i + 1, test_paths \o found)

RECURSIVE CollectTree(_, _, _)
CollectTree(listing, i, test_paths) ==
    IF i > Len(RootPatternList) THEN test_paths
    ELSE CollectTree(listing, i + 1,
                     test_paths \o RGlob(listing, RootPatternList[i]))

(* test_paths as it stands before line 306 *)
CollectTestPaths(target, listing) ==
    IF target.kind = "file" THEN
        IF target.self.suffix \in {".js", ".ts"} THEN <<target.self>>
        ELSE <<>>
    ELSE IF target.kind = "dir" THEN
        LET in_dirs == CollectCategories(target, listing, 1, <<>>)
        IN  IF in_dirs # <<>> THEN in_dirs
            ELSE CollectTree(listing, 1, <<>>)
    ELSE <<>>

(* faulty variant: the paths returned as collected *)
AsCollected(test_paths) == test_paths

(* sorted(list(set(test_paths))), line 306 *)
UniqueSorted(test_paths) ==
    Sorted({test_paths[i] : i \in 1..Len(test_paths)})

FindTestFilesListed(target, listing) ==
    UniqueSorted(CollectTestPaths(target, listing))

Targets ==
    {[kind |-> "missing", self |-> F5, files |-> {}, subdirs |-> {}]}
    \cup {[kind |-> "file", self |-> f, files |-> {}, subdirs |-> {}] :
             f \in {F2, F5}}
    \cup {[kind |-> "dir", self |-> F5, files |-> fs,
           subdirs |-> DirsOf(fs) \cup extra] :
             fs \in {{}, {F1}, {F1, F2}, {F3, F4}, {F5}},
             extra \in {{}, {"performance"}}}

-----------------------------------------------------------------------------
(* Sample runner output.  The text of a report line abbreviates each     *)
(* test object by its id.                                                *)

NoJson == [k |-> "invalid", val |-> JNull]
Line(text, brace, suites, login, failed, json) ==
    [text |-> text, brace |-> brace, suites |-> suites, login |-> login,
     failed |-> failed, json |-> json]

Attempt(status, duration) ==
    JDict([status |-> JStr(status), duration |-> JNum(duration)])
FailedAttempt(duration, message) ==
    JDict([status |-> JStr("failed"), duration |-> JNum(duration),
           error |-> JDict([message |-> JStr(message)])])
Test(id, title, attempts) ==
    JDict([id |-> JStr(id), title |-> JStr(title),
           results |-> JList(attempts)])
Report(tests) ==
    JDict([suites |-> JList(<<JDict([specs |->
              JList(<<JDict([tests |-> JList(tests)])>>)])>>)])

TestPass == Test("t1", "logs in", <<Attempt("passed", 1200)>>)
TestFail == Test("t2", "rejects bad password",
                 <<FailedAttempt(800, "expected visible")>>)
TestSkip == Test("t4", "exports csv", <<Attempt("skipped", 0)>>)
TestBroken == JDict([id |-> JStr("t3"), title |-> JStr("broken"),
                     results |-> JNum(7)])

LinePlain == Line("Running 1 test using 1 worker", FALSE, FALSE, FALSE,
                  FALSE, NoJson)
LineLoginFailed == Line("Error: Login failed for test user", FALSE, FALSE,
                        TRUE, TRUE, NoJson)
LineTruncated == Line("{\"suites\": [{\"specs\": [", TRUE, TRUE, FALSE,
                      FALSE, NoJson)
LineDeep == Line("{\"suites\": [[[[ ... ]]]]}", TRUE, TRUE, FALSE, FALSE,
                 [k |-> "deep", val |-> JNull])
LineReport == Line("{\"suites\": [{\"specs\": [{\"tests\": [t1, t2]}]}]}",
                   TRUE, TRUE, FALSE, TRUE,
                   [k |-> "value", val |-> Report(<<TestPass, TestFail>>)])
LineReport3 == Line("{\"suites\": [{\"specs\": [{\"tests\": [t1, t2, t4]}]}]}",
                   TRUE, TRUE, FALSE, TRUE,
                   [k |-> "value",
                    val |-> Report(<<TestPass, TestFail, TestSkip>>)])
LineEmptyReport == Line("{\"suites\": []}", TRUE, TRUE, FALSE, FALSE,
                        [k |-> "value", val |-> JDict([suites |-> JList(<<>>)])])
LineBrokenReport == Line("{\"suites\": [{\"specs\": [{\"tests\": [t1, t3]}]}]}",
                   TRUE, TRUE, FALSE, FALSE,
                   [k |-> "value", val |-> Report(<<TestPass, TestBroken>>)])
LineBadSuites == Line("{\"suites\": 5}", TRUE, TRUE, FALSE, FALSE,
                   [k |-> "value", val |-> JDict([suites |-> JNum(5)])])
LineOtherJson == Line("{\"ok\": true}", TRUE, FALSE, FALSE, FALSE,
                   [k |-> "value", val |-> JDict([ok |-> JNum(1)])])

LineSamples == {LinePlain, LineLoginFailed, LineTruncated, LineDeep,
                LineReport, LineReport3, LineEmptyReport, LineBrokenReport, LineBadSuites,
                LineOtherJson}

RECURSIVE SeqsUpTo(_, _)
SeqsUpTo(S, n) ==
    IF n = 0 THEN {<<>>}
    ELSE LET shorter == SeqsUpTo(S, n - 1)
         IN  shorter \cup {Append(q, x) : q \in shorter, x \in S}

StderrSamples ==
    {[text |-> "", login |-> FALSE, failed |-> FALSE],
     [text |-> "1 failed", login |-> FALSE, failed |-> TRUE],
     [text |-> "login page not reachable", login |-> TRUE, failed |-> FALSE]}

ArtDir(exists, unreadable, files) ==
    [exists |-> exists, unreadable |-> unreadable, files |-> files]
ArtEmpty == [screenshots |-> ArtDir(TRUE, FALSE, <<>>),
             videos |-> ArtDir(TRUE, FALSE, <<>>)]
ArtShot == [screenshots |-> ArtDir(TRUE, FALSE,
                <<[path |-> "screenshots/t2-failure.png", suffix |-> ".png",
                   has_test |-> FALSE, ids |-> {"t2"}]>>),
            videos |-> ArtDir(FALSE, FALSE, <<>>)]
ArtSamples == {ArtEmpty, ArtShot}

Proc(stdout, stderr, returncode) ==
    [stdout |-> stdout, stderr |-> stderr, returncode |-> returncode]
NoStderr == [text |-> "", login |-> FALSE, failed |-> FALSE]
NoProc == Proc(<<>>, NoStderr, 0)

ProcSamples ==
    {Proc(out, err, rc) : out \in SeqsUpTo(LineSamples, MaxLines),
                          err \in StderrSamples, rc \in {0, 1}}

Behaviour(kind, exc, msg, proc, art) ==
    [kind |-> kind, exc |-> exc, msg |-> msg, proc |-> proc, art |-> art]
Completed(proc, art) == Behaviour("completed", "none", "", proc, art)

FailureBehaviours ==
    {Behaviour("outside", "ValueError",
               "path is not in the subpath of playwright_tests",
               NoProc, ArtEmpty),
     Behaviour("raise", "TimeoutExpired", "timed out after 300 seconds",
               NoProc, ArtEmpty),
     Behaviour("raise", "FileNotFoundError",
               "[Errno 2] No such file or directory: 'npx.cmd'",
               NoProc, ArtEmpty),
     Behaviour("raise", "PermissionError", "[Errno 13] Permission denied",
               NoProc, ArtEmpty)}

(* behaviours the suite loop draws from *)
SuiteBehaviours ==
    FailureBehaviours
    \cup {Completed(Proc(<<LinePlain, LineReport3>>, NoStderr, 1), ArtShot),
          Completed(Proc(<<LineEmptyReport>>, NoStderr, 0),
                    ArtEmpty),
          Completed(Proc(<<LinePlain>>, NoStderr, 0), ArtEmpty)}

-----------------------------------------------------------------------------
(* BaseAgent responses *)

AgentResponse(success, message, data, error) ==
    [success |-> success, message |-> message, data |-> data,
     error |-> error]

CreateSuccessResponse(message, data) ==
    AgentResponse(TRUE, message, Some(data), None)

(* faulty variant: error passed through as given (None) *)
CreateErrorResponseNoError(message) ==
    AgentResponse(FALSE, message, None, None)

(* error = error or message; process() never passes error *)
CreateErrorResponse(message) ==
    AgentResponse(FALSE, message, None, Some(message))

-----------------------------------------------------------------------------
(* Suite aggregation, serialization and statistics *)

CountStatus(results, status) ==
    Cardinality({i \in 1..Len(results) : results[i].status = status})

(* faulty variant: results with status Error counted as failed as well *)
TestSuiteResultErrorsAsFailed(execution_id, test_type, start_time, end_time, results) ==
    [suite_id |-> execution_id,
     suite_name |-> "Test Suite - " \o test_type,
     total_tests |-> Len(results),
     passed |-> CountStatus(results, PASSED),
     failed |-> CountStatus(results, FAILED) + CountStatus(results, ERROR),
     skipped |-> CountStatus(results, SKIPPED),
     errors |-> CountStatus(results, ERROR),
     total_duration |-> end_time - start_time,
     start_time |-> start_time,
     end_time |-> end_time,
     test_results |-> results,
     artifacts_dir |-> execution_id,
     report_path |-> None]

TestSuiteResult(execution_id, test_type, start_time, end_time, results) ==
    [suite_id |-> execution_id,
     suite_name |-> "Test Suite - " \o test_type,
     total_tests |-> Len(results),
     passed |-> CountStatus(results, PASSED),
     failed |-> CountStatus(results, FAILED),
     skipped |-> CountStatus(results, SKIPPED),
     errors |-> CountStatus(results, ERROR),
     total_duration |-> end_time - start_time,
     start_time |-> start_time,
     end_time |-> end_time,
     test_results |-> results,
     artifacts_dir |-> execution_id,
     report_path |-> None]

(* faulty variant: the member's name written instead of its value *)
StatusName(status) == "TestStatus." \o status

(* tr.status if isinstance(tr.status, str) else tr.status.value (line    *)
(* 763): the statuses of the model are the values already                *)
StatusValue(status) == status

SerializeExecutionResult(r) ==
    [suite_id |-> r.suite_id,
     suite_name |-> r.suite_name,
     total_tests |-> r.total_tests,
     passed |-> r.passed,
     failed |-> r.failed,
     skipped |-> r.skipped,
     errors |-> r.errors,
     total_duration |-> r.total_duration,
     start_time |-> r.start_time,
     end_time |-> r.end_time,
     artifacts_dir |-> r.artifacts_dir,
     report_path |-> r.report_path,
     test_results |->
        [i \in 1..Len(r.test_results) |->
            [test_id |-> r.test_results[i].test_id,
             test_name |-> r.test_results[i].test_name,
             status |-> StatusValue(r.test_results[i].status),
             duration |-> r.test_results[i].duration,
             error_message |-> r.test_results[i].error_message,
             screenshot_path |-> r.test_results[i].screenshot_path,
             video_path |-> r.test_results[i].video_path,
             retry_count |-> r.test_results[i].retry_count]]]

(* json.dump (save_json, file_utils.py line 25) of the serialized result: *)
(* str to a JSON string, int and float to a number, None to null, list   *)
(* to an array, dict to an object                                        *)
DumpOptional(o) == IF o = None THEN JNull ELSE JStr(o[1])

DumpTestResult(d) ==
    JDict([test_id |-> JStr(d.test_id),
           test_name |-> JStr(d.test_name),
           status |-> JStr(d.status),
           duration |-> JNum(d.duration),
           error_message |-> DumpOptional(d.error_message),
           screenshot_path |-> DumpOptional(d.screenshot_path),
           video_path |-> DumpOptional(d.video_path),
           retry_count |-> JNum(d.retry_count)])

JsonDump(d) ==
    JDict([suite_id |-> JStr(d.suite_id),
           suite_name |-> JStr(d.suite_name),
           total_tests |-> JNum(d.total_tests),
           passed |-> JNum(d.passed),
           failed |-> JNum(d.failed),
           skipped |-> JNum(d.skipped),
           errors |-> JNum(d.errors),
           total_duration |-> JNum(d.total_duration),
           start_time |-> JStr(ToString(d.start_time)),
           end_time |-> JStr(ToString(d.end_time)),
           artifacts_dir |-> JStr(d.artifacts_dir),
           report_path |-> DumpOptional(d.report_path),
           test_results |->
              JList([i \in 1..Len(d.test_results) |->
                        DumpTestResult(d.test_results[i])])])

(* json.load (load_json, file_utils.py line 54): the Python value of a   *)
(* JSON value                                                            *)
RECURSIVE JsonLoad(_)
JsonLoad(j) ==
    CASE j.t = "null" -> None
      [] j.t = "list" -> [i \in 1..Len(j.v) |-> JsonLoad(j.v[i])]
      [] j.t = "dict" -> [k \in DOMAIN j.v |-> JsonLoad(j.v[k])]
      [] OTHER -> j.v

StatsInit ==
    [total_executions |-> 0, total_tests_run |-> 0, total_passed |-> 0,
     total_failed |-> 0, total_errors |-> 0, last_execution |-> None,
     execution_history |-> <<>>]

HistoryEntry(r) ==
    [suite_id |-> r.suite_id, timestamp |-> r.end_time,
     total_tests |-> r.total_tests, passed |-> r.passed,
     failed |-> r.failed, duration |-> r.total_duration]

(* faulty variant: the first n entries kept instead of the last n *)
FirstN(h, n) == IF Len(h) > n THEN SubSeq(h, 1, n) ELSE h

(* execution_history[-10:] *)
LastN(h, n) == IF Len(h) > n THEN SubSeq(h, Len(h) - n + 1, Len(h)) ELSE h

(* faulty variant: total_errors grown by the suite's failed count *)
UpdateStatsErrorsFromFailed(st, r) ==
    LET appended == Append(st.execution_history, HistoryEntry(r)) IN
    [total_executions |-> st.total_executions + 1,
     total_tests_run |-> st.total_tests_run + r.total_tests,
     total_passed |-> st.total_passed + r.passed,
     total_failed |-> st.total_failed + r.failed,
     total_errors |-> st.total_errors + r.failed,
     last_execution |-> Some(r.end_time),
     execution_history |->
        IF Len(appended) > HistoryLimit THEN LastN(appended, HistoryLimit)
        ELSE appended]

(* faulty variant: the suite is not recorded *)
UpdateStatsSkipped(st, r) == st

UpdateStats(st, r) ==
    LET appended == Append(st.execution_history, HistoryEntry(r)) IN
    [total_executions |-> st.total_executions + 1,
     total_tests_run |-> st.total_tests_run + r.total_tests,
     total_passed |-> st.total_passed + r.passed,
     total_failed |-> st.total_failed + r.failed,
     total_errors |-> st.total_errors + r.errors,
     last_execution |-> Some(r.end_time),
     execution_history |->
        IF Len(appended) > HistoryLimit THEN LastN(appended, HistoryLimit)
        ELSE appended]

-----------------------------------------------------------------------------
(* State after construction (TestExecutionAgent.__init__) *)

NoCall == [is_dict |-> TRUE, kind |-> "none", env_ok |-> TRUE,
           test_type |-> "recruter_ai", start_time |-> 0,
           execution_id |-> "", io_error |-> FALSE]

InitWith(r) ==
    /\ retries = r
    /\ stats = StatsInit
    /\ now = 0
    /\ disk = <<>>
    /\ dirs = {}
    /\ pc = "idle"
    /\ calls = 0
    /\ call = NoCall
    /\ test_files = <<>>
    /\ idx = 1
    /\ test_results = <<>>
    /\ file_log = <<>>
    /\ suite = None
    /\ response = None
    /\ stats_updates = 0
    /\ parse_in = None
    /\ parse_out = None
    /\ retry_out = None
    /\ upd_log = <<>>
    /\ fn_in = None
    /\ fn_out = None

Init == InitWith(DefaultRetries)

harness_vars == <<parse_in, parse_out, retry_out, fn_in, fn_out>>
loop_vars == <<test_files, idx, test_results, file_log>>

-----------------------------------------------------------------------------
(* process(): lines 77-96 and execute_test_suite up to the loop *)

ExecutionId(test_type, t) == "exec_" \o test_type \o "_" \o ToString(t)

(* faulty variant: the exception is answered with a success response *)
FailAsSuccess(msg) ==
    /\ response' = Some(CreateSuccessResponse(msg, [test_type |-> "none"]))
    /\ pc' = "idle"

(* an exception reaching the handler of process() (lines 127-130) *)
Fail(msg) ==
    /\ response' = Some(CreateErrorResponse("Test execution failed: " \o msg))
    /\ pc' = "idle"

(* input_data and what the call meets: is_dict, the target of            *)
(* test_suite_path, and env_ok: whether _setup_execution_environment     *)
(* returns.  It raises when a directory cannot be created or when the    *)
(* settings provider returns no 'timestamp' entry (line 252).            *)
Inputs ==
    {[is_dict |-> FALSE, target |-> t, env_ok |-> TRUE] :
        t \in {tt \in Targets : tt.kind = "missing"}}
    \cup {[is_dict |-> TRUE, target |-> t, env_ok |-> e] :
             t \in Targets, e \in BOOLEAN}

(* a call of process() with input drawn from ins, the limit-th at most *)
ProcessBeginWith(ins, limit) ==
    /\ pc = "idle"
    /\ calls < limit
    /\ \E in \in ins :
        LET files == FindTestFiles(in.target)
            test_type == "recruter_ai"
            execution_id == ExecutionId(test_type, now)
        IN
        /\ calls' = calls + 1
        /\ call' = [is_dict |-> in.is_dict, kind |-> in.target.kind,
                    env_ok |-> in.env_ok, test_type |-> test_type,
                    start_time |-> now, execution_id |-> execution_id,
                    io_error |-> FALSE]
        /\ idx' = 1
        /\ test_results' = <<>>
        /\ file_log' = <<>>
        /\ suite' = None
        /\ stats_updates' = 0
        /\ IF ~in.is_dict THEN
              /\ response' =
                    Some(CreateErrorResponse("Input must be a dictionary"))
              /\ pc' = "idle"
              /\ test_files' = <<>>
              /\ dirs' = dirs
           ELSE IF in.target.kind = "missing" THEN
              /\ response' = Some(CreateErrorResponse(
                                "Test suite path does not exist: suite"))
              /\ pc' = "idle"
              /\ test_files' = <<>>
              /\ dirs' = dirs
           ELSE IF files = <<>> THEN
              /\ Fail("No test files found in suite")
              /\ test_files' = <<>>
              /\ dirs' = dirs
           ELSE IF ~in.env_ok THEN
              /\ Fail("'timestamp'")
              /\ test_files' = files
              /\ dirs' = dirs \cup {execution_id}
           ELSE
              /\ response' = None
              /\ pc' = "loop"
              /\ test_files' = files
              /\ dirs' = dirs \cup {execution_id}
    /\ UNCHANGED <<retries, stats, now, disk, upd_log, harness_vars>>

ProcessBegin == ProcessBeginWith(Inputs, MaxCalls)

(* faulty variant: the results of a file put before the earlier ones *)
ExtendAtFront(acc, result) == result \o acc

(* test_results.extend(result), line 160 *)
Extend(acc, result) == acc \o result

(* the loop body, lines 153-160, for runner behaviours drawn from bs *)
ExecuteFileWith(bs) ==
    /\ pc = "loop"
    /\ idx <= Len(test_files)
    /\ \E b \in bs :
        LET o == ExecuteSingleTestFile(test_files[idx], b) IN
        /\ file_log' = Append(file_log,
              [file |-> test_files[idx], b |-> b, attempts |-> 1,
               raised |-> o.raised, results |-> o.results])
        /\ now' = IF b.kind = "raise" /\ b.exc = "TimeoutExpired"
                  THEN now + RunnerTimeoutSeconds ELSE now
        /\ IF o.raised THEN
              /\ Fail(b.msg)
              /\ UNCHANGED <<test_results, idx>>
           ELSE
              /\ test_results' = Extend(test_results, o.results)
              /\ idx' = idx + 1
              /\ UNCHANGED <<pc, response>>
    /\ UNCHANGED <<retries, stats, disk, dirs, calls, call, test_files,
                   suite, stats_updates, upd_log, harness_vars>>

ExecuteFile == ExecuteFileWith(SuiteBehaviours)

(* lines 162-189: the summary, and the return to process() *)
FinishSuite ==
    /\ pc = "loop"
    /\ idx > Len(test_files)
    /\ suite' = Some(TestSuiteResult(call.execution_id, call.test_type,
                                     call.start_time, now, test_results))
    /\ pc' = "json_open"
    /\ UNCHANGED <<retries, stats, now, disk, dirs, calls, call, loop_vars,
                   response, stats_updates, upd_log, harness_vars>>

-----------------------------------------------------------------------------
(* generate_execution_report.  A report file is written in two steps:     *)
(* open(path, 'w') creates or truncates it, then the content is written   *)
(* and the file closed.  disk maps <<directory, name>> to                 *)
(* [state |-> "partial" | "complete", content].                           *)

JsonName == "execution_report.json"
HtmlName == "execution_report.html"
MdName == "execution_report.md"
ReportNames == {JsonName, HtmlName, MdName}

Exists(d, dir, name) == <<dir, name>> \in DOMAIN d

Put(d, dir, name, state, content) ==
    (<<dir, name>> :> [state |-> state, content |-> content]) @@ d

TheSuite == suite[1]

(* what the HTML and Markdown reports show of the suite *)
Rendered(r) ==
    [suite_id |-> r.suite_id, total_tests |-> r.total_tests,
     passed |-> r.passed, failed |-> r.failed, errors |-> r.errors,
     tests |-> [i \in 1..Len(r.test_results) |->
                   <<r.test_results[i].test_id, r.test_results[i].status>>]]

(* faulty variant: the JSON report carries the time it was generated at *)
ReportContentStamped(name, r) ==
    IF name = JsonName
    THEN <<JDict([generated_at |-> JNum(now),
                  suite_id |-> JStr(r.suite_id),
                  total_tests |-> JNum(r.total_tests)])>>
    ELSE <<Rendered(r)>>

ReportContent(name, r) ==
    IF name = JsonName THEN <<JsonDump(SerializeExecutionResult(r))>>
    ELSE <<Rendered(r)>>

(* the Markdown content is built before the file is opened; its success   *)
(* rate divides by total_tests (line 706)                                 *)
ContentRaises(name, r) == name = MdName /\ r.total_tests = 0

OpenStep(name, here, next) ==
    /\ pc = here
    /\ \E io_ok \in BOOLEAN :
        IF ContentRaises(name, TheSuite) THEN
            /\ Fail("division by zero")
            /\ disk' = disk
            /\ call' = call
        ELSE IF ~io_ok THEN
            /\ Fail("[Errno 13] Permission denied")
            /\ disk' = disk
            /\ call' = [call EXCEPT !.io_error = TRUE]
        ELSE
            /\ disk' = Put(disk, TheSuite.artifacts_dir, name, "partial",
                           <<>>)
            /\ pc' = next
            /\ response' = response
            /\ call' = call
    /\ UNCHANGED <<retries, stats, now, dirs, calls, loop_vars, suite,
                   stats_updates, upd_log, harness_vars>>

WriteStep(name, here, next) ==
    /\ pc = here
    /\ \E io_ok \in BOOLEAN :
        IF ~io_ok THEN
            /\ Fail("[Errno 28] No space left on device")
            /\ disk' = disk
            /\ call' = [call EXCEPT !.io_error = TRUE]
        ELSE
            /\ disk' = Put(disk, TheSuite.artifacts_dir, name, "complete",
                           ReportContent(name, TheSuite))
            /\ pc' = next
            /\ response' = response
            /\ call' = call
    /\ UNCHANGED <<retries, stats, now, dirs, calls, loop_vars, suite,
                   stats_updates, upd_log, harness_vars>>

OpenJson == OpenStep(JsonName, "json_open", "json_write")
WriteJson == WriteStep(JsonName, "json_write", "html_open")
OpenHtml == OpenStep(HtmlName, "html_open", "html_write")
WriteHtml == WriteStep(HtmlName, "html_write", "md_open")
OpenMd == OpenStep(MdName, "md_open", "md_write")
WriteMd == WriteStep(MdName, "md_write", "finish")

(* process() lines 100-125: report_path, update_stats, the response *)
FinishProcess ==
    /\ pc = "finish"
    /\ LET r == [TheSuite EXCEPT !.report_path =
                    Some(TheSuite.artifacts_dir \o "/" \o HtmlName)]
       IN
        /\ suite' = Some(r)
        /\ stats' = UpdateStats(stats, r)
        /\ stats_updates' = stats_updates + 1
        /\ upd_log' = Append(upd_log, r)
        /\ response' = Some(CreateSuccessResponse(
              "Test execution completed: " \o ToString(r.passed) \o "/"
                 \o ToString(r.total_tests) \o " tests passed",
              [execution_result |-> SerializeExecutionResult(r),
               report_path |-> r.report_path[1],
               artifacts_dir |-> r.artifacts_dir,
               test_type |-> call.test_type]))
    /\ pc' = "idle"
    /\ UNCHANGED <<retries, now, disk, dirs, calls, call, loop_vars,
                   harness_vars>>

Next ==
    \/ ProcessBegin
    \/ ExecuteFile
    \/ FinishSuite
    \/ OpenJson
    \/ WriteJson
    \/ OpenHtml
    \/ WriteHtml
    \/ OpenMd
    \/ WriteMd
    \/ FinishProcess

Spec == Init /\ [][Next]_vars

-----------------------------------------------------------------------------
(* The result parser on its own: one call of _parse_playwright_results on  *)
(* each sample output                                                      *)

ParseCall ==
    /\ parse_in = None
    /\ \E proc \in ProcSamples, f \in {F1, F4}, art \in ArtSamples :
        /\ parse_in' = Some([proc |-> proc, file |-> f, art |-> art])
        /\ parse_out' = Some(ParseOutcome(proc, f, art))
    /\ UNCHANGED <<retries, stats, now, disk, dirs, pc, calls, call,
                   loop_vars, suite, response, stats_updates, retry_out,
                   upd_log, fn_in, fn_out>>

NextParse == ParseCall

SpecParse == Init /\ [][NextParse]_vars

(* The retry wrapper on its own, for every configured retries *)

InitRetry == \E r \in 0..MaxRetries : InitWith(r)

RetryCall ==
    /\ retry_out = None
    /\ \E f \in {F1}, bs \in [1..(retries + 1) -> SuiteBehaviours] :
        retry_out' = Some([file |-> f, bs |-> bs,
                           out |-> ExecuteSingleTestFileWithRetry(
                                      f, bs, retries)])
    /\ UNCHANGED <<retries, stats, now, disk, dirs, pc, calls, call,
                   loop_vars, suite, response, stats_updates, parse_in,
                   parse_out, upd_log, fn_in, fn_out>>

NextRetry == RetryCall

SpecRetry == InitRetry /\ [][NextRetry]_vars

(* The statistics tracker on its own: update_stats after each of a        *)
(* sequence of completed suites, the k-th ending at second k              *)

SuiteResultSamples ==
    {ExecuteSingleTestFile(F1, b).results :
        b \in {bb \in SuiteBehaviours :
                  \/ bb.exc = "TimeoutExpired"
                  \/ bb.kind = "completed" /\ bb.proc.returncode = 1}}

UpdateCall ==
    /\ Len(upd_log) < MaxUpdates
    /\ \E results \in SuiteResultSamples :
        LET t == Len(upd_log) + 1
            r == [TestSuiteResult(ExecutionId("recruter_ai", t),
                                  "recruter_ai", t, t, results)
                  EXCEPT !.report_path =
                     Some(ExecutionId("recruter_ai", t) \o "/" \o HtmlName)]
        IN  /\ stats' = UpdateStats(stats, r)
            /\ upd_log' = Append(upd_log, r)
    /\ UNCHANGED <<retries, now, disk, dirs, pc, calls, call, loop_vars,
                   suite, response, stats_updates, harness_vars>>

NextStats == UpdateCall

SpecStats == Init /\ [][NextStats]_vars

(* Several process() calls on one agent, with the wall clock advancing    *)
(* between calls: every call targets a directory holding one test file,  *)
(* whose run either finds no runner executable or completes and passes   *)

RunInputs ==
    {[is_dict |-> TRUE, env_ok |-> TRUE,
      target |-> [kind |-> "dir", self |-> F5, files |-> {F1},
                  subdirs |-> {"edge_cases"}]]}

RunBehaviours ==
    {b \in FailureBehaviours : b.exc = "FileNotFoundError"}
    \cup {Completed(Proc(<<LinePlain>>, NoStderr, 0), ArtEmpty)}

Tick ==
    /\ pc = "idle"
    /\ now < MaxRuns
    /\ now' = now + 1
    /\ UNCHANGED <<retries, stats, disk, dirs, pc, calls, call, loop_vars,
                   suite, response, stats_updates, upd_log, harness_vars>>

NextRuns ==
    \/ ProcessBeginWith(RunInputs, MaxRuns)
    \/ ExecuteFileWith(RunBehaviours)
    \/ FinishSuite
    \/ OpenJson
    \/ WriteJson
    \/ OpenHtml
    \/ WriteHtml
    \/ OpenMd
    \/ WriteMd
    \/ FinishProcess
    \/ Tick

SpecRuns == Init /\ [][NextRuns]_vars

(* The report generator on its own: generate_execution_report called     *)
(* repeatedly on one suite result, which nothing modifies in between;    *)
(* fn_out lists the JSON report found complete after each call           *)

ReportSuiteSamples ==
    {TestSuiteResult(ExecutionId("recruter_ai", 0), "recruter_ai", 0, 0,
                     results) :
        results \in SuiteResultSamples
                    \cup {<<>>, ExecuteSingleTestFile(F1,
                              Completed(Proc(<<LinePlain>>, NoStderr, 0),
                                        ArtEmpty)).results}}

ReportBegin ==
    /\ pc = "idle"
    /\ calls = 0
    /\ \E r \in ReportSuiteSamples :
        /\ suite' = Some(r)
        /\ fn_in' = Some(r)
        /\ call' = [NoCall EXCEPT !.kind = "dir",
                                  !.execution_id = r.suite_id]
        /\ dirs' = dirs \cup {r.artifacts_dir}
    /\ fn_out' = <<>>
    /\ calls' = 1
    /\ pc' = "json_open"
    /\ UNCHANGED <<retries, stats, now, disk, loop_vars, response,
                   stats_updates, upd_log, parse_in, parse_out, retry_out>>

(* the call returned (pc = "finish") or raised (pc = "idle") *)
ReportReturn ==
    /\ pc \in {"finish", "idle"}
    /\ suite # None
    /\ LET k == <<TheSuite.artifacts_dir, JsonName>>
           written == IF k \in DOMAIN disk /\ disk[k].state = "complete"
                      THEN disk[k].content ELSE None
       IN  fn_out' = Append(fn_out, written)
    /\ IF calls < MaxRuns THEN
          /\ calls' = calls + 1
          /\ pc' = "json_open"
          /\ \E dt \in {0, 1} : now' = now + dt
       ELSE
          /\ pc' = "done"
          /\ UNCHANGED <<calls, now>>
    /\ UNCHANGED <<retries, stats, disk, dirs, call, loop_vars, suite,
                   response, stats_updates, upd_log, fn_in, parse_in,
                   parse_out, retry_out>>

NextReport ==
    \/ ReportBegin
    \/ OpenJson
    \/ WriteJson
    \/ OpenHtml
    \/ WriteHtml
    \/ OpenMd
    \/ WriteMd
    \/ ReportReturn

SpecReport == Init /\ [][NextReport]_vars

(* Test discovery on its own: _find_test_files on a directory or file,   *)
(* for every order in which the file system may list the directory       *)

RECURSIVE Perms(_)
Perms(S) ==
    IF S = {} THEN {<<>>}
    ELSE UNION {{<<x>> \o p : p \in Perms(S \ {x})} : x \in S}

DiscoveryTargets ==
    {[kind |-> "file", self |-> f, files |-> {}, subdirs |-> {}] :
         f \in {F2, F5}}
    \cup {[kind |-> "dir", self |-> F5, files |-> fs,
           subdirs |-> DirsOf(fs)] : fs \in SUBSET (PathUniverse \cup {F6})}

FindCall ==
    /\ fn_in = None
    /\ \E target \in DiscoveryTargets :
        \E listing \in Perms(target.files) :
            /\ fn_in' = Some([target |-> target, listing |-> listing])
            /\ fn_out' = Some(FindTestFilesListed(target, listing))
    /\ UNCHANGED <<retries, stats, now, disk, dirs, pc, calls, call,
                   loop_vars, suite, response, stats_updates, upd_log,
                   parse_in, parse_out, retry_out>>

NextFind == FindCall

SpecFind == Init /\ [][NextFind]_vars

(* The artifact locator on its own: _find_test_artifacts for a test id,  *)
(* an artifact kind and an artifacts directory, together with the        *)
(* statuses the parser gives a three-test report in that directory       *)

ArtFileSamples ==
    {[path |-> "screenshots/t2-failure.png", suffix |-> ".png",
      has_test |-> FALSE, ids |-> {"t2"}],
     [path |-> "screenshots/test-finished-1.jpeg", suffix |-> ".jpeg",
      has_test |-> TRUE, ids |-> {}],
     [path |-> "videos/t1.webm", suffix |-> ".webm",
      has_test |-> FALSE, ids |-> {"t1"}],
     [path |-> "test-trace.zip", suffix |-> ".zip",
      has_test |-> TRUE, ids |-> {}]}

ArtDirAbsent == ArtDir(FALSE, FALSE, <<>>)

ArtDirSamples ==
    {ArtDirAbsent, ArtDir(TRUE, TRUE, <<>>)}
    \cup {ArtDir(TRUE, FALSE, fs) :
             fs \in SeqsUpTo(ArtFileSamples, MaxArtifactFiles)}

ArtifactKinds == {"screenshot", "video", "trace"}

ReportStatuses(art) ==
    LET results == ParsePlaywrightResults(
                       Proc(<<LineReport3>>, NoStderr, 1), F1, art)
    IN  [i \in 1..Len(results) |-> results[i].status]

ArtifactCall ==
    /\ fn_in = None
    /\ \E test_id \in {"t1", "t2"}, kind \in ArtifactKinds,
          shots \in ArtDirSamples, vids \in ArtDirSamples :
        LET art == [screenshots |-> shots, videos |-> vids] IN
        /\ fn_in' = Some([test_id |-> test_id, art |-> art,
                          artifact_type |-> kind])
        /\ fn_out' = Some([value |-> FindTestArtifacts(test_id, art, kind),
                           statuses |-> ReportStatuses(art)])
    /\ UNCHANGED <<retries, stats, now, disk, dirs, pc, calls, call,
                   loop_vars, suite, response, stats_updates, upd_log,
                   parse_in, parse_out, retry_out>>

NextArtifacts == ArtifactCall

SpecArtifacts == Init /\ [][NextArtifacts]_vars

(* The structured-report walk on its own: _parse_playwright_json_results *)
(* on a report with one leaf test, for every sequence of attempts        *)

AttemptSamples ==
    {Attempt("passed", 100),
     FailedAttempt(200, "first error"),
     FailedAttempt(300, "second error"),
     Attempt("skipped", 0),
     Attempt("timedOut", 400)}

WalkCall ==
    /\ fn_in = None
    /\ \E attempts \in SeqsUpTo(AttemptSamples, MaxAttempts) :
        /\ fn_in' = Some(attempts)
        /\ fn_out' = Some(ParsePlaywrightJsonResults(
                              Report(<<Test("t1", "logs in", attempts)>>),
                              ArtEmpty))
    /\ UNCHANGED <<retries, stats, now, disk, dirs, pc, calls, call,
                   loop_vars, suite, response, stats_updates, upd_log,
                   parse_in, parse_out, retry_out>>

NextWalk == WalkCall

SpecWalk == Init /\ [][NextWalk]_vars

-----------------------------------------------------------------------------
(* _parse_playwright_json_results on reports whose first suite holds tests *)
(* of its own and a suite nested inside it, the shape the runner gives a   *)
(* file with a describe block.                                             *)

TestFlaky == Test("t5", "uploads avatar",
                  <<FailedAttempt(500, "socket closed"),
                    Attempt("passed", 700)>>)

LeafTestSamples == {TestPass, TestFail, TestSkip, TestFlaky}

NestedReport(top, nested) ==
    JDict([suites |-> JList(<<JDict(
        [specs |-> JList(<<JDict([tests |-> JList(top)])>>),
         suites |-> JList(<<JDict(
            [specs |-> JList(<<JDict([tests |-> JList(nested)])>>)])>>)])>>)])

NestedCall ==
    /\ fn_in = None
    /\ \E top \in SeqsUpTo(LeafTestSamples, MaxTests) :
        \E nested \in SeqsUpTo(LeafTestSamples, MaxTests) :
            /\ fn_in' = Some([top |-> top, nested |-> nested])
            /\ fn_out' = Some(ParsePlaywrightJsonResults(
                                  NestedReport(top, nested), ArtEmpty))
    /\ UNCHANGED <<retries, stats, now, disk, dirs, pc, calls, call,
                   loop_vars, suite, response, stats_updates, upd_log,
                   parse_in, parse_out, retry_out>>

NextNested == NestedCall

SpecNested == Init /\ [][NextNested]_vars

-----------------------------------------------------------------------------
(* What one child process is given: the environment map of               *)
(* _setup_execution_environment and the command line of                   *)
(* _execute_single_test_file, for an agent instance and the               *)
(* execution_config of the call.  An absent override is None.             *)

InstanceDefaults ==
    [headless |-> TRUE, browser |-> "chromium", timeout |-> 30000,
     retries |-> DefaultRetries, video_enabled |-> TRUE,
     screenshot_enabled |-> TRUE]

InstanceSamples ==
    {InstanceDefaults,
     [headless |-> FALSE, browser |-> "webkit", timeout |-> 10000,
      retries |-> 0, video_enabled |-> FALSE, screenshot_enabled |-> FALSE]}

OverrideSamples ==
    [headless : {None, Some(TRUE), Some(FALSE)},
     browser : {None, Some("firefox")},
     timeout : {None, Some(60000)},
     retries : {None, Some(0), Some(1)},
     video_enabled : {None, Some(TRUE), Some(FALSE)},
     screenshot_enabled : {None, Some(TRUE), Some(FALSE)}]

(* config.get(key, default) *)
ConfigGet(config, key, default) ==
    IF config[key] = None THEN default ELSE config[key][1]

(* str(b).lower() *)
BoolStr(b) == IF b THEN "true" ELSE "false"

SetupExecutionEnvironment(self, config) ==
    [HEADLESS |-> BoolStr(ConfigGet(config, "headless", self.headless)),
     BROWSER |-> ConfigGet(config, "browser", self.browser),
     TIMEOUT |-> ToString(ConfigGet(config, "timeout", self.timeout)),
     RETRIES |-> ToString(ConfigGet(config, "retries", self.retries)),
     VIDEO_ENABLED |->
        BoolStr(ConfigGet(config, "video_enabled", self.video_enabled)),
     SCREENSHOT_ENABLED |->
        BoolStr(ConfigGet(config, "screenshot_enabled",
                          self.screenshot_enabled))]

RunnerCommand(self, test_path, artifacts_dir) ==
    <<"npx.cmd", "playwright", "test", test_path.path, "--reporter=json",
      "--output-dir=" \o artifacts_dir,
      IF ~self.headless THEN "--headed" ELSE "--headless",
      "--browser=" \o self.browser,
      "--timeout=" \o ToString(self.timeout),
      "--retries=" \o ToString(self.retries)>>
    \o (IF self.video_enabled THEN <<"--video=retain-on-failure">>
        ELSE <<>>)
    \o (IF self.screenshot_enabled THEN <<"--screenshot=only-on-failure">>
        ELSE <<>>)

CommandCall ==
    /\ fn_in = None
    /\ \E self \in InstanceSamples, config \in OverrideSamples :
        /\ fn_in' = Some([self |-> self, config |-> config])
        /\ fn_out' = Some(
              [env |-> SetupExecutionEnvironment(self, config),
               cmd |-> RunnerCommand(self, F1,
                                     ExecutionId("recruter_ai", 0))])
    /\ UNCHANGED <<retries, stats, now, disk, dirs, pc, calls, call,
                   loop_vars, suite, response, stats_updates, upd_log,
                   parse_in, parse_out, retry_out>>

NextCommand == CommandCall

SpecCommand == Init /\ [][NextCommand]_vars

-----------------------------------------------------------------------------
(* update_stats run by two threads that share one agent, each finishing a *)
(* suite of its own.  The method takes no lock; every statement           *)
(* `self.stats[k] += n` reads the entry and writes it back as two steps,  *)
(* and the history is read, appended to, measured, sliced and rebound as  *)
(* separate steps.  fn_in holds the statistics the threads start from and *)
(* their suites, fn_out what each thread holds: its position, the value   *)
(* it has read, the slice it has taken, and whether the list it looked up *)
(* has since been replaced.                                               *)

Threads == {1, 2}

CounterFields == <<"total_executions", "total_tests_run", "total_passed",
                   "total_failed", "total_errors">>

(* the right-hand sides of lines 776-780 *)
Amount(r, k) ==
    CASE k = 1 -> 1
      [] k = 2 -> r.total_tests
      [] k = 3 -> r.passed
      [] k = 4 -> r.failed
      [] k = 5 -> r.errors

(* the statistics after n earlier suites, recorded one after another *)
RECURSIVE PriorStats(_)
PriorStats(n) ==
    IF n = 0 THEN StatsInit
    ELSE UpdateStats(PriorStats(n - 1),
            TestSuiteResult(ExecutionId("recruter_ai", n), "recruter_ai",
                            n, n, <<>>))

ThreadInit == [pc |-> 1, reg |-> 0, hist |-> <<>>, stale |-> FALSE]

thread_unchanged ==
    <<retries, now, disk, dirs, pc, calls, call, loop_vars, suite, response,
      stats_updates, upd_log, parse_in, parse_out, retry_out>>

ThreadsStart ==
    /\ fn_in = None
    /\ \E n \in {0, HistoryLimit} :
        \E a \in SuiteResultSamples, b \in SuiteResultSamples :
            LET t1 == HistoryLimit + 1
                t2 == HistoryLimit + 2
            IN  /\ stats' = PriorStats(n)
                /\ fn_in' = Some(
                      [base |-> PriorStats(n),
                       suites |->
                         <<TestSuiteResult(ExecutionId("recruter_ai", t1),
                                           "recruter_ai", t1, t1, a),
                           TestSuiteResult(ExecutionId("recruter_ai", t2),
                                           "recruter_ai", t2, t2, b)>>])
    /\ fn_out' = Some([t \in Threads |-> ThreadInit])
    /\ UNCHANGED thread_unchanged

Running(t) == fn_out # None /\ fn_in # None

(* lines 776-780, the read of self.stats[k] *)
LoadCounter(t) ==
    /\ Running(t)
    /\ fn_out[1][t].pc \in {1, 3, 5, 7, 9}
    /\ fn_out' = Some([fn_out[1] EXCEPT
            ![t].reg = stats[CounterFields[(fn_out[1][t].pc + 1) \div 2]],
            ![t].pc = @ + 1])
    /\ UNCHANGED <<stats, fn_in>>
    /\ UNCHANGED thread_unchanged

(* lines 776-780, the write of self.stats[k] *)
StoreCounter(t) ==
    /\ Running(t)
    /\ fn_out[1][t].pc \in {2, 4, 6, 8, 10}
    /\ LET k == fn_out[1][t].pc \div 2 IN
        stats' = [stats EXCEPT ![CounterFields[k]] =
                     fn_out[1][t].reg + Amount(fn_in[1].suites[t], k)]
    /\ fn_out' = Some([fn_out[1] EXCEPT ![t].pc = @ + 1])
    /\ UNCHANGED fn_in
    /\ UNCHANGED thread_unchanged

(* line 781 *)
SetLastExecution(t) ==
    /\ Running(t)
    /\ fn_out[1][t].pc = 11
    /\ stats' = [stats EXCEPT
                    !.last_execution = Some(fn_in[1].suites[t].end_time)]
    /\ fn_out' = Some([fn_out[1] EXCEPT ![t].pc = 12])
    /\ UNCHANGED fn_in
    /\ UNCHANGED thread_unchanged

(* line 784, the lookup of self.stats['execution_history'] *)
LoadHistory(t) ==
    /\ Running(t)
    /\ fn_out[1][t].pc = 12
    /\ fn_out' = Some([fn_out[1] EXCEPT ![t].pc = 13, ![t].stale = FALSE])
    /\ UNCHANGED <<stats, fn_in>>
    /\ UNCHANGED thread_unchanged

(* lines 784-791, append on the list looked up; a list that was replaced  *)
(* in the meantime is no longer the one the statistics hold               *)
AppendHistory(t) ==
    /\ Running(t)
    /\ fn_out[1][t].pc = 13
    /\ stats' = IF fn_out[1][t].stale THEN stats
                ELSE [stats EXCEPT !.execution_history =
                         Append(@, HistoryEntry(fn_in[1].suites[t]))]
    /\ fn_out' = Some([fn_out[1] EXCEPT ![t].pc = 14])
    /\ UNCHANGED fn_in
    /\ UNCHANGED thread_unchanged

(* line 794 *)
CheckLength(t) ==
    /\ Running(t)
    /\ fn_out[1][t].pc = 14
    /\ fn_out' = Some([fn_out[1] EXCEPT ![t].pc =
            IF Len(stats.execution_history) > HistoryLimit THEN 15 ELSE 17])
    /\ UNCHANGED <<stats, fn_in>>
    /\ UNCHANGED thread_unchanged

(* line 795, the right-hand side *)
SliceHistory(t) ==
    /\ Running(t)
    /\ fn_out[1][t].pc = 15
    /\ fn_out' = Some([fn_out[1] EXCEPT
            ![t].hist = LastN(stats.execution_history, HistoryLimit),
            ![t].pc = 16])
    /\ UNCHANGED <<stats, fn_in>>
    /\ UNCHANGED thread_unchanged

(* line 795, the assignment *)
StoreHistory(t) ==
    /\ Running(t)
    /\ fn_out[1][t].pc = 16
    /\ stats' = [stats EXCEPT !.execution_history = fn_out[1][t].hist]
    /\ fn_out' = Some([u \in Threads |->
            IF u = t THEN [fn_out[1][u] EXCEPT !.pc = 17]
            ELSE IF fn_out[1][u].pc = 13
                 THEN [fn_out[1][u] EXCEPT !.stale = TRUE]
                 ELSE fn_out[1][u]])
    /\ UNCHANGED fn_in
    /\ UNCHANGED thread_unchanged

NextThreads ==
    \/ ThreadsStart
    \/ \E t \in Threads : LoadCounter(t)
    \/ \E t \in Threads : StoreCounter(t)
    \/ \E t \in Threads : SetLastExecution(t)
    \/ \E t \in Threads : LoadHistory(t)
    \/ \E t \in Threads : AppendHistory(t)
    \/ \E t \in Threads : CheckLength(t)
    \/ \E t \in Threads : SliceHistory(t)
    \/ \E t \in Threads : StoreHistory(t)

SpecThreads == Init /\ [][NextThreads]_vars

-----------------------------------------------------------------------------
(* Properties *)

Returned == pc = "idle" /\ calls > 0
TheResponse == response[1]

RECURSIVE Flatten(_)
Flatten(log) ==
    IF log = <<>> THEN <<>>
    ELSE Flatten(SubSeq(log, 1, Len(log) - 1)) \o log[Len(log)].results

IsTimeout(b) == b.kind = "raise" /\ b.exc = "TimeoutExpired"

(* C1: every TestSuiteResult that execute_test_suite returns has           *)
(* total_tests equal to the number of its test_results, and its passed,    *)
(* failed, skipped and errors counts add up to total_tests.                *)
C1_SuiteCountsAddUp ==
    suite # None =>
        /\ TheSuite.total_tests = Len(TheSuite.test_results)
        /\ TheSuite.passed + TheSuite.failed + TheSuite.skipped
              + TheSuite.errors = TheSuite.total_tests

C1_Witness ==
    /\ suite # None
    /\ Len(file_log) = 2
    /\ TheSuite.passed >= 1
    /\ TheSuite.failed >= 1
    /\ TheSuite.skipped >= 1
    /\ TheSuite.errors >= 1

(* C2, as claimed: a file whose runner raises is attempted retries + 1     *)
(* times and contributes exactly one Error result with                     *)
(* retry_count = retries.                                                  *)
C2_Claim ==
    \A i \in 1..Len(file_log) :
        RunnerRaises(file_log[i].b) =>
            /\ file_log[i].attempts = retries + 1
            /\ Len(file_log[i].results) = 1
            /\ file_log[i].results[1].status = ERROR
            /\ file_log[i].results[1].retry_count = retries

(* C3: a file whose child process exceeds the 300 s ceiling contributes    *)
(* exactly one result, with status Error, duration 300.0 s and the         *)
(* timeout message; the run is not repeated, the loop goes on to the next  *)
(* file, and a suite that completes has executed every discovered file.    *)
C3_TimeoutContained ==
    /\ \A i \in 1..Len(file_log) :
          IsTimeout(file_log[i].b) =>
            /\ Len(file_log[i].results) = 1
            /\ file_log[i].results[1].status = ERROR
            /\ file_log[i].results[1].duration = 300000
            /\ file_log[i].results[1].error_message =
                  Some("Test execution timed out")
            /\ file_log[i].attempts = 1
            /\ test_results = Flatten(file_log)
            /\ idx = Len(file_log) + 1
            /\ (pc = "loop" \/ suite # None)
    /\ (suite # None => Len(file_log) = Len(test_files))

C3_Witness ==
    /\ Len(file_log) = 2
    /\ IsTimeout(file_log[1].b)
    /\ suite # None
    /\ TheSuite.total_tests > 1

(* C4, as claimed (and with a working environment setup granted): when     *)
(* discovery finds a file and no I/O error occurs while the reports are    *)
(* written, process() returns success and the three report files exist,    *)
(* whatever results the files produced.                                    *)
C4_Claim ==
    (/\ Returned
     /\ call.is_dict
     /\ test_files # <<>>
     /\ call.env_ok
     /\ ~call.io_error)
    => /\ TheResponse.success
       /\ \A n \in ReportNames :
            /\ Exists(disk, call.execution_id, n)
            /\ disk[<<call.execution_id, n>>].state = "complete"

(* C5: _execute_single_test_file returns normally for every file and       *)
(* every runner behaviour, the loop moves on to the next file, a failure   *)
(* to execute the file shows as a result with status Error, and a call     *)
(* that fails after files were executed fails only after the whole loop.   *)
C5_FailuresContained ==
    /\ \A i \in 1..Len(file_log) :
          /\ ~file_log[i].raised
          /\ ExecutionFails(file_log[i].b) =>
                \E k \in 1..Len(file_log[i].results) :
                    file_log[i].results[k].status = ERROR
    /\ idx = Len(file_log) + 1
    /\ test_results = Flatten(file_log)
    /\ (Returned /\ file_log # <<>> => Len(file_log) = Len(test_files))

C5_Witness ==
    /\ Len(file_log) = 2
    /\ file_log[1].b.kind = "outside"
    /\ file_log[2].b.exc = "PermissionError"
    /\ pc = "loop"

(* C6, as claimed for a structured report whose nested structure is        *)
(* malformed: the exception met while walking it yields exactly one Error  *)
(* result that names the parse failure.                                    *)
C6_Claim ==
    (parse_out # None /\ parse_out[1].exc = "walk") =>
        /\ Len(parse_out[1].results) = 1
        /\ parse_out[1].results[1].status = ERROR
        /\ parse_out[1].results[1].test_id =
              "parse_error_" \o parse_in[1].file.name

NoLineParsesAsJson(proc) ==
    \A i \in 1..Len(proc.stdout) : proc.stdout[i].json.k # "value"

OnePassed(results) == Len(results) = 1 /\ results[1].status = PASSED

(* C7, as claimed: no line of stdout parses as JSON and the exit code is   *)
(* 0, then the parser returns exactly one result and it is Passed.         *)
C7_Claim ==
    (/\ parse_out # None
     /\ NoLineParsesAsJson(parse_in[1].proc)
     /\ parse_in[1].proc.returncode = 0)
    => OnePassed(parse_out[1].results)

(* C7, amended: no line of stdout parses as JSON, none makes the decoder   *)
(* fail with anything but a decode error, the exit code is 0 and the       *)
(* output does not hold both 'login' and 'failed'; then the parser         *)
(* returns exactly one result and it is Passed.                            *)
C7_FallbackPassed ==
    (/\ parse_out # None
     /\ \A i \in 1..Len(parse_in[1].proc.stdout) :
            parse_in[1].proc.stdout[i].json.k = "invalid"
     /\ parse_in[1].proc.returncode = 0
     /\ ~(HasLogin(parse_in[1].proc) /\ HasFailed(parse_in[1].proc)))
    => OnePassed(parse_out[1].results)

C7_Witness ==
    /\ parse_out # None
    /\ parse_in[1].proc.returncode = 0
    /\ parse_in[1].proc.stdout = <<LinePlain, LineTruncated>>
    /\ parse_in[1].proc.stderr.text = ""
    /\ OnePassed(parse_out[1].results)

Min(a, b) == IF a < b THEN a ELSE b

(* C8: after n recorded suite runs execution_history holds the summaries   *)
(* of the min(n, 10) most recent runs, in run order, and never more than   *)
(* 10 entries.                                                             *)
C8_HistoryKeepsLastTen ==
    LET n == Len(upd_log)
        h == stats.execution_history
    IN  /\ Len(h) = Min(n, 10)
        /\ Len(h) <= 10
        /\ \A i \in 1..Len(h) :
              /\ h[i].suite_id = upd_log[n - Len(h) + i].suite_id
              /\ h[i].timestamp = upd_log[n - Len(h) + i].end_time
              /\ h[i].total_tests = upd_log[n - Len(h) + i].total_tests
              /\ h[i].passed = upd_log[n - Len(h) + i].passed
              /\ h[i].failed = upd_log[n - Len(h) + i].failed
              /\ h[i].duration = upd_log[n - Len(h) + i].total_duration

C8_Witness ==
    /\ Len(upd_log) = 11
    /\ Len(stats.execution_history) = 10
    /\ stats.execution_history[1].suite_id = upd_log[2].suite_id

RECURSIVE SumOver(_, _)
SumOver(log, field) ==
    IF log = <<>> THEN 0
    ELSE SumOver(SubSeq(log, 1, Len(log) - 1), field) + log[Len(log)][field]

(* C9: after n suite runs total_executions is n, the test, passed, failed  *)
(* and error counters are the sums of the suites' totals, and              *)
(* last_execution is the end_time of the most recent suite.                *)
C9_CountersAreSums ==
    /\ stats.total_executions = Len(upd_log)
    /\ stats.total_tests_run = SumOver(upd_log, "total_tests")
    /\ stats.total_passed = SumOver(upd_log, "passed")
    /\ stats.total_failed = SumOver(upd_log, "failed")
    /\ stats.total_errors = SumOver(upd_log, "errors")
    /\ stats.last_execution =
          IF upd_log = <<>> THEN None
          ELSE Some(upd_log[Len(upd_log)].end_time)

C9_Witness ==
    /\ Len(upd_log) = 3
    /\ stats.total_errors = 2
    /\ stats.total_failed = 1
    /\ stats.last_execution = Some(3)

(* C10: every process() call ends with an AgentResponse; non-dict input,   *)
(* a missing path, an empty discovery, a failed environment setup and a    *)
(* failed report generation each end with success = FALSE, and a failure   *)
(* response carries a non-empty message and a non-empty error string.      *)
C10_AlwaysAResponse ==
    Returned =>
        /\ response # None
        /\ (~call.is_dict => ~TheResponse.success)
        /\ (call.kind = "missing" => ~TheResponse.success)
        /\ (test_files = <<>> => ~TheResponse.success)
        /\ (~call.env_ok => ~TheResponse.success)
        /\ (suite # None /\ TheSuite.report_path = None
               => ~TheResponse.success)
        /\ (~TheResponse.success =>
               /\ TheResponse.message # ""
               /\ TheResponse.error # None
               /\ TheResponse.error[1] # "")

C10_Witness ==
    /\ Returned
    /\ suite # None
    /\ TheSuite.report_path = None
    /\ call.io_error
    /\ ~TheResponse.success

(* C11: when discovery yields an empty list the call fails at once: no     *)
(* artifacts directory is created, the runner is not invoked, no report    *)
(* file is written, no suite result exists, the statistics are untouched   *)
(* and process() returns a failure response.                               *)
C11_EmptyDiscoveryFails ==
    [][(/\ pc = "idle"
        /\ calls' = calls + 1
        /\ call'.is_dict
        /\ call'.kind # "missing"
        /\ test_files' = <<>>)
       => (/\ pc' = "idle"
           /\ response' # None
           /\ ~response'[1].success
           /\ suite' = None
           /\ dirs' = dirs
           /\ disk' = disk
           /\ file_log' = <<>>
           /\ stats' = stats)]_vars

C11_Witness ==
    /\ Returned
    /\ call.is_dict
    /\ call.kind = "dir"
    /\ test_files = <<>>
    /\ dirs = {}
    /\ disk = <<>>
    /\ TheResponse.message =
          "Test execution failed: No test files found in suite"

(* C12: the results are grouped by file in discovery order: the files are  *)
(* executed in ascending path order, test_results is the concatenation of  *)
(* the per-file result lists in that order, whatever each run took or      *)
(* returned, and a completed suite holds exactly that list.                *)
C12_ResultsInDiscoveryOrder ==
    /\ \A i \in 1..Len(file_log) : file_log[i].file = test_files[i]
    /\ \A i, j \in 1..Len(test_files) :
          i < j => test_files[i].ord < test_files[j].ord
    /\ test_results = Flatten(file_log)
    /\ suite # None =>
          /\ TheSuite.test_results = Flatten(file_log)
          /\ Len(file_log) = Len(test_files)

C12_Witness ==
    /\ suite # None
    /\ Len(file_log) = 2
    /\ IsTimeout(file_log[1].b)
    /\ Len(file_log[2].results) = 3
    /\ TheSuite.test_results[1].test_id = "timeout_" \o test_files[1].name
    /\ TheSuite.total_tests = 4

(* C13, as claimed: two suite runs of the same test type started within    *)
(* the same second receive different execution ids and different           *)
(* artifacts directories.                                                  *)
C13_Claim ==
    \A i, j \in 1..Len(upd_log) :
        (i < j /\ upd_log[i].start_time = upd_log[j].start_time) =>
            /\ upd_log[i].suite_id # upd_log[j].suite_id
            /\ upd_log[i].artifacts_dir # upd_log[j].artifacts_dir

(* C14, as claimed: at every instant each report file is either absent or  *)
(* holds a complete report, never a part of one.                           *)
C14_Claim ==
    \A k \in DOMAIN disk : disk[k].state = "complete"

(* C15: every call of generate_execution_report on the same, unmodified    *)
(* TestSuiteResult writes the same execution_report.json content,          *)
(* whenever the calls are made.                                            *)
C15_JsonReportIdempotent ==
    \A i, j \in 1..Len(fn_out) :
        (fn_out[i] # None /\ fn_out[j] # None) => fn_out[i] = fn_out[j]

C15_Witness ==
    /\ pc = "done"
    /\ Len(fn_out) = 2
    /\ fn_out[1] # None
    /\ fn_out[2] = fn_out[1]
    /\ now > 0
    /\ response = None
    /\ TheSuite.total_tests = 3
    /\ disk[<<TheSuite.artifacts_dir, MdName>>].state = "complete"

(* what load_json returns for the JSON report of the call in flight *)
LoadedReport == JsonLoad(disk[<<TheSuite.artifacts_dir, JsonName>>].content[1])

(* C16: the JSON report a call has written, read back with load_json,      *)
(* holds total_tests, passed, failed, skipped and errors equal to those of *)
(* the suite result, and a test_results array of length total_tests whose  *)
(* statuses recount to the same four counts.                               *)
C16_ReportRoundTrip ==
    pc \in {"html_open", "html_write", "md_open", "md_write", "finish"} =>
        /\ LoadedReport.total_tests = TheSuite.total_tests
        /\ LoadedReport.passed = TheSuite.passed
        /\ LoadedReport.failed = TheSuite.failed
        /\ LoadedReport.skipped = TheSuite.skipped
        /\ LoadedReport.errors = TheSuite.errors
        /\ Len(LoadedReport.test_results) = TheSuite.total_tests
        /\ CountStatus(LoadedReport.test_results, "passed") = TheSuite.passed
        /\ CountStatus(LoadedReport.test_results, "failed") = TheSuite.failed
        /\ CountStatus(LoadedReport.test_results, "skipped")
              = TheSuite.skipped
        /\ CountStatus(LoadedReport.test_results, "error") = TheSuite.errors

C16_Witness ==
    /\ pc = "html_open"
    /\ LoadedReport.total_tests = 4
    /\ LoadedReport.passed = 1
    /\ LoadedReport.failed = 1
    /\ LoadedReport.skipped = 1
    /\ LoadedReport.errors = 1
    /\ LoadedReport.report_path = None
    /\ LoadedReport.test_results[1].status = "error"

(* C17: for the same directory contents _find_test_files returns the same  *)
(* list whatever order the directory is listed in; the list has no         *)
(* duplicate path, is in ascending path order and holds exactly the paths  *)
(* collected, from category subdirectories or from the recursive search.   *)
C17_DiscoveryDeterministic ==
    fn_out # None =>
        LET found == fn_out[1]
            target == fn_in[1].target
            listing == fn_in[1].listing
            collected == CollectTestPaths(target, listing)
        IN  /\ \A other \in Perms(target.files) :
                  FindTestFilesListed(target, other) = found
            /\ found = FindTestFiles(target)
            /\ \A i, j \in 1..Len(found) :
                  i < j => /\ found[i] # found[j]
                           /\ found[i].ord < found[j].ord
            /\ {found[i] : i \in 1..Len(found)}
                  = {collected[i] : i \in 1..Len(collected)}

C17_Witness ==
    /\ fn_out # None
    /\ fn_in[1].target.kind = "dir"
    /\ fn_in[1].listing = <<F6, F5, F4, F3>>
    /\ CollectTestPaths(fn_in[1].target, fn_in[1].listing) = <<F3, F6, F4>>
    /\ fn_out[1] = <<F3, F4, F6>>

(* C18: _find_test_artifacts always returns: None for an unknown artifact  *)
(* kind, an absent subdirectory or a file system error, otherwise None or  *)
(* the path of a file of the subdirectory; and whatever it finds, the      *)
(* statuses of the results are those of a run without any artifact.        *)
C18_ArtifactLocatorContained ==
    fn_out # None =>
        LET in == fn_in[1]
            out == fn_out[1]
            d == IF in.artifact_type = "screenshot" THEN in.art.screenshots
                 ELSE in.art.videos
        IN  /\ \/ out.value = None
               \/ \E i \in 1..Len(d.files) : out.value = Some(d.files[i].path)
            /\ (\/ in.artifact_type \notin {"screenshot", "video"}
                \/ ~d.exists
                \/ d.unreadable) => out.value = None
            /\ out.statuses =
                  ReportStatuses([screenshots |-> ArtDirAbsent,
                                  videos |-> ArtDirAbsent])

C18_Witness ==
    /\ fn_out # None
    /\ fn_in[1].artifact_type = "video"
    /\ fn_in[1].art.videos.unreadable
    /\ Len(fn_in[1].art.screenshots.files) = 2
    /\ fn_out[1].value = None
    /\ fn_out[1].statuses = <<"passed", "failed", "skipped">>

AttemptHas(attempts, status) ==
    \E i \in 1..Len(attempts) : attempts[i].v.status.v = status

FirstFailed(attempts) ==
    CHOOSE i \in 1..Len(attempts) :
        /\ attempts[i].v.status.v = "failed"
        /\ \A k \in 1..(i - 1) : attempts[k].v.status.v # "failed"

(* C19, as claimed: the status of a leaf test is Failed if any of its      *)
(* attempts failed, in any position; Skipped if some attempt was skipped   *)
(* and none failed; Passed otherwise.                                      *)
C19_Claim ==
    fn_out # None =>
        /\ Len(fn_out[1]) = 1
        /\ fn_out[1][1].status =
              IF AttemptHas(fn_in[1], "failed") THEN FAILED
              ELSE IF AttemptHas(fn_in[1], "skipped") THEN SKIPPED
              ELSE PASSED

(* C20, as claimed: the error_message of a leaf test is the message of     *)
(* its first failing attempt, and None exactly when no attempt failed.     *)
C20_Claim ==
    fn_out # None =>
        /\ Len(fn_out[1]) = 1
        /\ fn_out[1][1].error_message =
              IF AttemptHas(fn_in[1], "failed")
              THEN Some(fn_in[1][FirstFailed(fn_in[1])].v.error.v.message.v)
              ELSE None

(* no structured report is obtained from stdout: no line is a candidate,   *)
(* or the candidate the scan meets does not decode                         *)
NoStructuredReport(proc) ==
    \/ FirstCandidate(proc.stdout) = 0
    \/ proc.stdout[FirstCandidate(proc.stdout)].json.k = "invalid"

HasSentinels(proc) == HasLogin(proc) /\ HasFailed(proc)

(* C21, as claimed: no structured report is obtained and the output holds  *)
(* both 'login' and 'failed', then the parser returns exactly the          *)
(* authentication-failure Error result, also when a candidate line failed  *)
(* to decode.                                                              *)
C21_Claim ==
    (/\ parse_out # None
     /\ NoStructuredReport(parse_in[1].proc)
     /\ HasSentinels(parse_in[1].proc))
    => parse_out[1].results = AuthFailedResult(parse_in[1].file)

(* index of the first line that decodes to an object with a top-level      *)
(* 'suites' key, 0 if there is none                                        *)
FirstReportLine(stdout) ==
    LET IsReportLine(i) == /\ stdout[i].json.k = "value"
                           /\ stdout[i].json.val.t = "dict"
                           /\ "suites" \in DOMAIN stdout[i].json.val.v
    IN  IF \E i \in 1..Len(stdout) : IsReportLine(i)
        THEN CHOOSE i \in 1..Len(stdout) :
                /\ IsReportLine(i)
                /\ \A j \in 1..(i - 1) : ~IsReportLine(j)
        ELSE 0

(* C22, as claimed: when a line of stdout decodes to a report with a       *)
(* top-level 'suites' key, the results are those of that report, whatever  *)
(* undecodable candidate line comes before it.                             *)
C22_Claim ==
    (/\ parse_out # None
     /\ FirstReportLine(parse_in[1].proc.stdout) # 0
     /\ \A j \in 1..(FirstReportLine(parse_in[1].proc.stdout) - 1) :
            parse_in[1].proc.stdout[j].json.k = "invalid")
    => parse_out[1].results =
          ParsePlaywrightJsonResults(
              parse_in[1].proc.stdout[
                  FirstReportLine(parse_in[1].proc.stdout)].json.val,
              parse_in[1].art)

C25_Claim ==
    (fn_out # None /\ fn_in[1].target.kind = "dir") =>
        LET found == fn_out[1]
            target == fn_in[1].target
            listing == fn_in[1].listing
        IN  IF target.subdirs \cap TestDirs = {}
            THEN found = UniqueSorted(CollectTree(listing, 1, <<>>))
            ELSE \A i \in 1..Len(found) :
                    /\ found[i].direct
                    /\ found[i].dir \in target.subdirs \cap TestDirs
                    /\ found[i].ending \in CategoryPatterns

RECURSIVE SumDurations(_, _)
SumDurations(attempts, i) ==
    IF i > Len(attempts) THEN 0
    ELSE attempts[i].v.duration.v + SumDurations(attempts, i + 1)

(* C23, as claimed: the parser returns exactly one TestResult per leaf     *)
(* test of the report, in report order, tests of suites nested inside      *)
(* other suites included, each with the summed duration of its attempts.   *)
C23_Claim ==
    fn_out # None =>
        LET leaves == fn_in[1].top \o fn_in[1].nested
            found == fn_out[1]
        IN  /\ Len(found) = Len(leaves)
            /\ \A i \in 1..Len(found) :
                  /\ found[i].test_id = leaves[i].v.id.v
                  /\ found[i].duration =
                        SumDurations(leaves[i].v.results.v, 1)

OnCommandLine(cmd, flag) == \E i \in 1..Len(cmd) : cmd[i] = flag

(* C26, as claimed: whatever the execution_config overrides, the headless, *)
(* browser, timeout, retries, video and screenshot settings on the runner  *)
(* command line equal the values of HEADLESS, BROWSER, TIMEOUT, RETRIES,   *)
(* VIDEO_ENABLED and SCREENSHOT_ENABLED in the environment map of the same *)
(* child process, in which an override wins over the instance default.     *)
C26_Claim ==
    fn_out # None =>
        LET env == fn_out[1].env
            cmd == fn_out[1].cmd
            self == fn_in[1].self
            config == fn_in[1].config
        IN  /\ env.BROWSER = ConfigGet(config, "browser", self.browser)
            /\ env.RETRIES =
                  ToString(ConfigGet(config, "retries", self.retries))
            /\ OnCommandLine(cmd, "--headless") <=> env.HEADLESS = "true"
            /\ OnCommandLine(cmd, "--headed") <=> env.HEADLESS = "false"
            /\ OnCommandLine(cmd, "--browser=" \o env.BROWSER)
            /\ OnCommandLine(cmd, "--timeout=" \o env.TIMEOUT)
            /\ OnCommandLine(cmd, "--retries=" \o env.RETRIES)
            /\ OnCommandLine(cmd, "--video=retain-on-failure")
                  <=> env.VIDEO_ENABLED = "true"
            /\ OnCommandLine(cmd, "--screenshot=only-on-failure")
                  <=> env.SCREENSHOT_ENABLED = "true"

(* C27, as claimed: in a completed suite no two entries of test_results    *)
(* share a test_id, synthesized ids of files with the same base name in    *)
(* different category directories included.                                *)
C27_Claim ==
    suite # None =>
        \A i, j \in 1..Len(TheSuite.test_results) :
            i # j => TheSuite.test_results[i].test_id
                        # TheSuite.test_results[j].test_id

(* a step with which a process() call returns its response *)
CallReturns == pc' = "idle" /\ (pc # "idle" \/ calls' = calls + 1)

(* C29: a step that returns a failure response, and every step of a call   *)
(* before its return, leaves the counters, last_execution and              *)
(* execution_history unchanged; the step that returns success is taken     *)
(* once the three report files are complete and records the suite exactly  *)
(* once.                                                                   *)
C29_StatsOnlyOnSuccess ==
    [][/\ ~(CallReturns /\ response'[1].success) => stats' = stats
       /\ (CallReturns /\ response'[1].success) =>
            /\ pc = "finish"
            /\ \A name \in ReportNames :
                  /\ Exists(disk, TheSuite.artifacts_dir, name)
                  /\ disk[<<TheSuite.artifacts_dir, name>>].state
                        = "complete"
            /\ disk' = disk
            /\ stats'.total_executions = stats.total_executions + 1
            /\ stats'.total_tests_run
                  = stats.total_tests_run + TheSuite.total_tests
            /\ stats'.total_passed = stats.total_passed + TheSuite.passed
            /\ stats'.total_failed = stats.total_failed + TheSuite.failed
            /\ stats'.total_errors = stats.total_errors + TheSuite.errors
            /\ stats'.last_execution = Some(TheSuite.end_time)
            /\ Len(stats'.execution_history)
                  = Min(Len(stats.execution_history) + 1, HistoryLimit)
            /\ stats'.execution_history[Len(stats'.execution_history)]
                    .suite_id = TheSuite.suite_id
            /\ stats_updates' = stats_updates + 1]_vars

C29_Witness ==
    /\ Returned
    /\ TheResponse.success
    /\ stats.total_executions = 1
    /\ stats.total_tests_run = TheSuite.total_tests
    /\ TheSuite.total_tests = 2
    /\ stats.total_errors = 1
    /\ Len(stats.execution_history) = 1
    /\ disk[<<TheSuite.artifacts_dir, MdName>>].state = "complete"

(* a call that ran files and then returned a failure: nothing recorded *)
C29_FailureWitness ==
    /\ Returned
    /\ ~TheResponse.success
    /\ file_log # <<>>
    /\ suite # None
    /\ stats = StatsInit

(* C30, as claimed: after a successful process() the content of            *)
(* execution_report.json equals the serialized execution_result of the     *)
(* response in every field, report_path included, whose value is the path  *)
(* of execution_report.html in the artifacts directory.                    *)
C30_Claim ==
    (Returned /\ TheResponse.success) =>
        LET returned == TheResponse.data[1].execution_result IN
        /\ returned.report_path
              = Some(TheSuite.artifacts_dir \o "/" \o HtmlName)
        /\ disk[<<TheSuite.artifacts_dir, JsonName>>].content
              = <<JsonDump(returned)>>

BothUpdatesDone ==
    /\ fn_out # None
    /\ \A t \in Threads : fn_out[1][t].pc = 17

(* C28, as claimed: whatever the interleaving of the update_stats steps of *)
(* two suite runs on one agent, the counters end as the sums of both       *)
(* suites' totals, total_executions has grown by 2 and execution_history   *)
(* holds the entries of both runs.                                         *)
C28_Claim ==
    BothUpdatesDone =>
        LET base == fn_in[1].base
            r1 == fn_in[1].suites[1]
            r2 == fn_in[1].suites[2]
            h == stats.execution_history
        IN  /\ stats.total_executions = base.total_executions + 2
            /\ stats.total_tests_run
                  = base.total_tests_run + r1.total_tests + r2.total_tests
            /\ stats.total_passed = base.total_passed + r1.passed + r2.passed
            /\ stats.total_failed = base.total_failed + r1.failed + r2.failed
            /\ stats.total_errors = base.total_errors + r1.errors + r2.errors
            /\ \E i \in 1..Len(h) : h[i].suite_id = r1.suite_id
            /\ \E i \in 1..Len(h) : h[i].suite_id = r2.suite_id

====
